---- MODULE Spec2Model ----
(***************************************************************************)
(* Model of wl-mpris-idle-inhibit (src/main.rs): the startup registry      *)
(* dispatch, player discovery, the idle-inhibitor life cycle, the player   *)
(* event watch and the poll sleep of the single-threaded main loop.        *)
(***************************************************************************)
EXTENDS Integers, Sequences, FiniteSets, TLC

VARIABLES
    pc,                   \* position of main: connect, dispatch, discover, events, watch, sleep, dead
    panic,                \* message of the expect/unwrap that ended the process, "" while it runs
    globals,              \* registry Global events read by blocking_dispatch, not yet dispatched
    compositor,           \* State.compositor is Some
    surf,                 \* State.surf is Some
    idle_inhibit_manager, \* State.idle_inhibit_manager is Some
    idle_inhibitor,       \* 0 = None, n = Some(the n-th inhibitor object created)
    bus,                  \* result of find_all() in the discovery that just ran
    found,                \* result of find_active_player in the discovery that just ran
    active_player_opt,    \* 0 = None, i = Some(i-th enumerated player)
    events,               \* remaining elements of the watched player's event stream
    should_allow_idle,    \* value computed by the last pass of the inner watch loop
    wire,                 \* compositor requests issued by the last step
    out,                  \* stdout lines printed by the last step
    creates,              \* create_inhibitor requests issued so far
    destroys,             \* destroy requests issued so far
    roundtrips,           \* conn.roundtrip() calls issued so far
    reply                 \* the compositor's answer to the inhibitor request of the last step

vars == <<pc, panic, globals, compositor, surf, idle_inhibit_manager, idle_inhibitor,
          bus, found, active_player_opt, events, should_allow_idle, wire, out,
          creates, destroys, roundtrips, reply>>

(* ---- bounds ---- *)
MaxPlayers == 3
MaxEvents == 2
MaxCreates == 2

(* ---- program constants ---- *)
PLAYERCTLD_NO_ACTIVE_PLAYER_MESSAGE == "No player is being controlled by playerctld"
WL_COMPOSITOR_INTERFACE == "wl_compositor"
ZWP_IDLE_INHIBIT_MANAGER_V1_INTERFACE == "zwp_idle_inhibit_manager_v1"

(* ---- input domains ---- *)
SeqsUpTo(S, n) == UNION {[1..k -> S] : k \in 0..n}

Interfaces == {WL_COMPOSITOR_INTERFACE, ZWP_IDLE_INHIBIT_MANAGER_V1_INTERFACE, "wl_shm"}

GlobalBatches ==
    {g \in SeqsUpTo(Interfaces, Cardinality(Interfaces)) :
        \A i, j \in 1..Len(g) : i # j => g[i] # g[j]}

PlaybackStatus == {"Playing", "Paused", "Stopped"}
StatusResults == PlaybackStatus \cup {"Err"}

\* FindingError: NoPlayerFound | DBusError(TransportError(dbus::Error) | Miscellaneous(String));
\* a dbus::Error may carry no message, NoPlayerFound never carries one
ErrorMessages == {PLAYERCTLD_NO_ACTIVE_PLAYER_MESSAGE, "Message recipient disconnected"}

FindingErrors ==
    {[kind |-> "TransportError", message |-> m, players |-> <<>>] : m \in ErrorMessages \cup {""}}
    \cup {[kind |-> "Miscellaneous", message |-> m, players |-> <<>>] : m \in ErrorMessages}
    \cup {[kind |-> "NoPlayerFound", message |-> "", players |-> <<>>]}

FindAllResults ==
    {[kind |-> "Ok", message |-> "", players |-> p] : p \in SeqsUpTo(StatusResults, MaxPlayers)}
    \cup FindingErrors

NoBus == [kind |-> "None", message |-> "", players |-> <<>>]
NoFound == [kind |-> "None", message |-> "", player |-> 0]

MprisEvent == {"PlayerShutDown", "Stopped", "Paused", "Playing", "TrackChanged"}
EventResults == MprisEvent \cup {"Err"}
EventStreams == SeqsUpTo(EventResults, MaxEvents)

Line(text, arg) == <<text, arg>>

(* ---- find_active_player ---- *)
IsPlaying_ErrIsActive(status) == status \in {"Playing", "Err"}

\* the closure given to players.into_iter().find
IsPlaying(status) == status = "Playing"

FindFrom_Last(players, i) ==
    LET hits == {j \in i..Len(players) : IsPlaying(players[j])}
    IN IF hits = {} THEN 0 ELSE CHOOSE j \in hits : \A k \in hits : k <= j

RECURSIVE FindFrom(_, _)
FindFrom(players, i) ==
    IF i > Len(players) THEN 0
    ELSE IF IsPlaying(players[i]) THEN i
    ELSE FindFrom(players, i + 1)

IsSentinel_AnyTransport(r) ==
    r.kind = "TransportError"

IsSentinel_AnyKind(r) ==
    r.message = PLAYERCTLD_NO_ACTIVE_PLAYER_MESSAGE

\* the guarded arm of match res
IsSentinel(r) ==
    r.kind = "TransportError" /\ r.message = PLAYERCTLD_NO_ACTIVE_PLAYER_MESSAGE

find_active_player(r) ==
    LET res == IF r.kind = "Ok"
               THEN [kind |-> "Ok", message |-> "", player |-> FindFrom(r.players, 1)]
               ELSE [kind |-> r.kind, message |-> r.message, player |-> 0]
    IN IF r.kind # "Ok" /\ IsSentinel(r)
       THEN [kind |-> "Ok", message |-> "", player |-> 0]
       ELSE res

RECURSIVE StatusErrorLines(_, _, _)
StatusErrorLines(players, i, last) ==
    IF i > last THEN <<>>
    ELSE (IF players[i] = "Err" THEN <<Line("Could not get playback status for", i)>> ELSE <<>>)
         \o StatusErrorLines(players, i + 1, last)

DiscoveryLines(r) ==
    IF r.kind # "Ok" THEN <<>>
    ELSE LET hit == FindFrom(r.players, 1)
         IN StatusErrorLines(r.players, 1, IF hit = 0 THEN Len(r.players) ELSE hit)

(* ---- the idle inhibitor (main, lines 48-65 and 99-105) ---- *)
CompositorOutcomes == {"ok", "request_rejected", "roundtrip_rejected"}

ensure_inhibiting_Swallow(inhibitor, manager, surface, id, outcome) ==
    IF inhibitor # 0 \/ outcome = "request_rejected" \/ ~manager \/ ~surface
    THEN [panic |-> "", inhibitor |-> inhibitor, wire |-> <<>>]
    ELSE [panic |-> "", inhibitor |-> IF outcome = "ok" THEN id ELSE 0,
          wire |-> <<"create_inhibitor(surf)", "roundtrip">>]

ensure_inhibiting_SyncAlways(inhibitor, manager, surface, id, outcome) ==
    IF inhibitor # 0
    THEN [panic |-> "", inhibitor |-> inhibitor, wire |-> <<"roundtrip">>]
    ELSE IF outcome # "ok" \/ ~manager \/ ~surface
    THEN [panic |-> "could not inhibit idle", inhibitor |-> 0, wire |-> <<>>]
    ELSE [panic |-> "", inhibitor |-> id, wire |-> <<"create_inhibitor(surf)", "roundtrip">>]

ensure_inhibiting_Always(inhibitor, manager, surface, id, outcome) ==
    IF outcome = "ok"
    THEN [panic |-> "", inhibitor |-> id, wire |-> <<"create_inhibitor(surf)", "roundtrip">>]
    ELSE [panic |-> "could not inhibit idle", inhibitor |-> 0, wire |-> <<>>]

ensure_inhibiting_Replace(inhibitor, manager, surface, id, outcome) ==
    IF outcome # "ok" \/ ~manager \/ ~surface
    THEN [panic |-> "could not inhibit idle", inhibitor |-> 0, wire |-> <<>>]
    ELSE [panic |-> "", inhibitor |-> id,
          wire |-> (IF inhibitor # 0 THEN <<"destroy">> ELSE <<>>)
                   \o <<"create_inhibitor(surf)", "roundtrip">>]

\* idle_inhibitor.or_else(|| { create_inhibitor(surf); roundtrip; Some(inhibitor) })
ensure_inhibiting(inhibitor, manager, surface, id, outcome) ==
    IF inhibitor # 0
    THEN [panic |-> "", inhibitor |-> inhibitor, wire |-> <<>>]
    ELSE IF ~manager
    THEN [panic |-> "idle manager should be present", inhibitor |-> 0, wire |-> <<>>]
    ELSE IF ~surface
    THEN [panic |-> "wayland surface should be present", inhibitor |-> 0, wire |-> <<>>]
    ELSE IF outcome = "request_rejected"
    THEN [panic |-> "could not inhibit idle", inhibitor |-> 0, wire |-> <<>>]
    ELSE IF outcome = "roundtrip_rejected"
    THEN [panic |-> "failed to request creating idle inhibitor", inhibitor |-> 0,
          wire |-> <<"create_inhibitor(surf)", "roundtrip">>]
    ELSE [panic |-> "", inhibitor |-> id,
          wire |-> <<"create_inhibitor(surf)", "roundtrip">>]

ensure_idle_AlwaysLog(inhibitor, outcome) ==
    IF inhibitor = 0
    THEN [panic |-> "", inhibitor |-> 0, wire |-> <<>>, out |-> <<Line("Idle allowed", 0)>>]
    ELSE IF outcome = "roundtrip_rejected"
    THEN [panic |-> "failed to request destruction of idle inhibitor", inhibitor |-> 0,
          wire |-> <<"destroy", "roundtrip">>, out |-> <<>>]
    ELSE [panic |-> "", inhibitor |-> 0,
          wire |-> <<"destroy", "roundtrip">>, out |-> <<Line("Idle allowed", 0)>>]

ensure_idle_Never(inhibitor, outcome) ==
    [panic |-> "", inhibitor |-> inhibitor, wire |-> <<>>, out |-> <<>>]

ensure_idle_SyncAlways(inhibitor, outcome) ==
    IF inhibitor = 0
    THEN [panic |-> "", inhibitor |-> 0, wire |-> <<"roundtrip">>, out |-> <<>>]
    ELSE [panic |-> "", inhibitor |-> 0,
          wire |-> <<"destroy", "roundtrip">>, out |-> <<Line("Idle allowed", 0)>>]

ensure_idle_Keep(inhibitor, outcome) ==
    IF inhibitor = 0
    THEN [panic |-> "", inhibitor |-> 0, wire |-> <<>>, out |-> <<>>]
    ELSE [panic |-> "", inhibitor |-> inhibitor,
          wire |-> <<"destroy", "roundtrip">>, out |-> <<Line("Idle allowed", 0)>>]

ensure_idle_Unconditional(inhibitor, outcome) ==
    [panic |-> "", inhibitor |-> 0,
     wire |-> <<"destroy", "roundtrip">>, out |-> <<Line("Idle allowed", 0)>>]

\* else if let Some(i) = idle_inhibitor.as_ref() { i.destroy(); ...; roundtrip; println }
ensure_idle(inhibitor, outcome) ==
    IF inhibitor = 0
    THEN [panic |-> "", inhibitor |-> 0, wire |-> <<>>, out |-> <<>>]
    ELSE IF outcome = "roundtrip_rejected"
    THEN [panic |-> "failed to request destruction of idle inhibitor", inhibitor |-> 0,
          wire |-> <<"destroy", "roundtrip">>, out |-> <<>>]
    ELSE [panic |-> "", inhibitor |-> 0,
          wire |-> <<"destroy", "roundtrip">>, out |-> <<Line("Idle allowed", 0)>>]

Count(w, req) == Cardinality({i \in 1..Len(w) : w[i] = req})

(* ---- the event watch (main, lines 69-98) ---- *)
MapEvent_PlayingEnds(e) ==
    IF e = "Err" THEN "Err"
    ELSE IF e \in {"PlayerShutDown", "Stopped", "Paused", "Playing"} THEN "Ok(true)"
    ELSE "Ok(false)"

\* matches!(event, PlayerShutDown | Stopped | Paused) under events.map(|e| e.map(..))
MapEvent(e) ==
    IF e = "Err" THEN "Err"
    ELSE IF e \in {"PlayerShutDown", "Stopped", "Paused"} THEN "Ok(true)"
    ELSE "Ok(false)"

\* the predicate of event_iterator.find: matches!(res, Ok(true) | Err(_))
FindPredicate(item) == item \in {"Ok(true)", "Err"}

ShouldAllowIdle_StrictEnd(item) ==
    item \in {"Err", "Ok(true)"}

ShouldAllowIdle_RetryOnError(item) ==
    item \in {"None", "Ok(true)"}

\* .unwrap_or_else(|| Ok(true)).unwrap_or_else(|err| true) applied to the Option find returned
ShouldAllowIdle(item) ==
    LET res == IF item = "None" THEN "Ok(true)" ELSE item
    IN IF res = "Err" THEN TRUE ELSE res = "Ok(true)"

WatchLines(item, e) ==
    (IF item \in {"Ok(true)", "Ok(false)"} THEN <<Line("Received event", e)>> ELSE <<>>)
    \o (IF item = "None" THEN <<Line("No event ending playback returned, allowing idle", 0)>>
        ELSE IF item = "Err" THEN <<Line("Error while watching player events, allowing idle", 0)>>
        ELSE <<>>)

(* ---- state machine ---- *)
Init ==
    /\ pc = "connect"
    /\ panic = ""
    /\ globals = <<>>
    /\ compositor = FALSE
    /\ surf = FALSE
    /\ idle_inhibit_manager = FALSE
    /\ idle_inhibitor = 0
    /\ bus = NoBus
    /\ found = NoFound
    /\ active_player_opt = 0
    /\ events = <<>>
    /\ should_allow_idle = FALSE
    /\ wire = <<>>
    /\ out = <<>>
    /\ creates = 0
    /\ destroys = 0
    /\ roundtrips = 0
    /\ reply = "none"

UnwrapFailed == "called Result::unwrap() on an Err value"

Die(msg) ==
    /\ pc' = "dead"
    /\ panic' = msg

Quiet ==
    /\ wire' = <<>>
    /\ out' = <<>>
    /\ reply' = "none"
    /\ UNCHANGED <<creates, destroys, roundtrips>>

\* main, lines 32-37: connect_to_env, new_event_queue, get_registry; the
\* compositor then sends one Global event per advertised capability
Connect ==
    /\ pc = "connect"
    /\ \E ok \in BOOLEAN :
         IF ok
         THEN /\ pc' = "dispatch"
              /\ globals' \in GlobalBatches
              /\ UNCHANGED panic
         ELSE /\ Die("could not connect to Wayland server")
              /\ UNCHANGED globals
    /\ Quiet
    /\ UNCHANGED <<compositor, surf, idle_inhibit_manager, idle_inhibitor, bus, found,
                   active_player_opt, events, should_allow_idle>>

\* Dispatch<WlRegistry, ()> for State::event, called by blocking_dispatch
\* for each event it read
RegistryEvent ==
    /\ pc = "dispatch"
    /\ globals # <<>>
    /\ globals' = Tail(globals)
    /\ LET interface == Head(globals) IN
         IF interface = WL_COMPOSITOR_INTERFACE
         THEN \E outcome \in {"ok", "bind_rejected", "create_surface_rejected"} :
                IF outcome = "ok"
                THEN /\ surf' = TRUE
                     /\ compositor' = TRUE
                     /\ wire' = <<"bind(wl_compositor)", "create_surface">>
                     /\ UNCHANGED <<pc, panic, idle_inhibit_manager>>
                ELSE /\ Die(UnwrapFailed)
                     /\ wire' = IF outcome = "bind_rejected" THEN <<>>
                                ELSE <<"bind(wl_compositor)">>
                     /\ UNCHANGED <<compositor, surf, idle_inhibit_manager>>
         ELSE IF interface = ZWP_IDLE_INHIBIT_MANAGER_V1_INTERFACE
         THEN \E outcome \in {"ok", "bind_rejected"} :
                IF outcome = "ok"
                THEN /\ idle_inhibit_manager' = TRUE
                     /\ wire' = <<"bind(zwp_idle_inhibit_manager_v1)">>
                     /\ UNCHANGED <<pc, panic, compositor, surf>>
                ELSE /\ Die(UnwrapFailed)
                     /\ wire' = <<>>
                     /\ UNCHANGED <<compositor, surf, idle_inhibit_manager>>
         ELSE /\ wire' = <<>>
              /\ UNCHANGED <<pc, panic, compositor, surf, idle_inhibit_manager>>
    /\ out' = <<>>
    /\ reply' = "none"
    /\ UNCHANGED <<idle_inhibitor, bus, found, active_player_opt, events, should_allow_idle,
                   creates, destroys, roundtrips>>

\* main, lines 40-41: blocking_dispatch returns, idle_inhibitor = None, the loop is entered
DispatchDone ==
    /\ pc = "dispatch"
    /\ globals = <<>>
    /\ \E ok \in BOOLEAN :
         IF ok
         THEN pc' = "discover" /\ UNCHANGED panic
         ELSE Die(UnwrapFailed)
    /\ idle_inhibitor' = 0
    /\ Quiet
    /\ UNCHANGED <<globals, compositor, surf, idle_inhibit_manager, bus, found,
                   active_player_opt, events, should_allow_idle>>

\* main, lines 43-66 and 99-105: one discovery and the reconciliation of the inhibitor
Discover ==
    /\ pc = "discover"
    /\ \E dbus \in BOOLEAN, r \in FindAllResults, outcome \in CompositorOutcomes :
         LET res == find_active_player(r)
             hit == res.kind = "Ok" /\ res.player # 0
             step == IF hit
                     THEN ensure_inhibiting(idle_inhibitor, idle_inhibit_manager, surf,
                                            creates + 1, outcome)
                             @@ [out |-> <<>>]
                     ELSE ensure_idle(idle_inhibitor, outcome)
             \* the compositor is asked only on the paths that reach a request;
             \* destroy() itself returns nothing, only its round-trip can be rejected
             asked == IF hit THEN idle_inhibitor = 0 /\ idle_inhibit_manager /\ surf
                      ELSE idle_inhibitor # 0
         IN IF ~dbus
            THEN /\ Die("could not connect to DBus")
                 /\ bus' = NoBus
                 /\ found' = NoFound
                 /\ Quiet
                 /\ UNCHANGED <<idle_inhibitor, active_player_opt>>
            ELSE IF res.kind # "Ok"
            THEN /\ Die("error while finding active players")
                 /\ bus' = r
                 /\ found' = res
                 /\ Quiet
                 /\ UNCHANGED <<idle_inhibitor, active_player_opt>>
            ELSE /\ (hit /\ idle_inhibitor = 0) => creates < MaxCreates
                 /\ ~asked => outcome = "ok"
                 /\ ~hit => outcome # "request_rejected"
                 /\ reply' = IF asked THEN outcome ELSE "none"
                 /\ bus' = r
                 /\ found' = res
                 /\ active_player_opt' = res.player
                 /\ idle_inhibitor' = step.inhibitor
                 /\ wire' = step.wire
                 /\ creates' = creates + Count(step.wire, "create_inhibitor(surf)")
                 /\ destroys' = destroys + Count(step.wire, "destroy")
                 /\ roundtrips' = roundtrips + Count(step.wire, "roundtrip")
                 /\ IF step.panic # ""
                    THEN /\ Die(step.panic)
                         /\ out' = DiscoveryLines(r) \o step.out
                    ELSE /\ pc' = IF hit THEN "events" ELSE "sleep"
                         /\ out' = DiscoveryLines(r) \o step.out
                                   \o (IF hit THEN <<Line("Idle inhibited by", res.player)>>
                                       ELSE <<>>)
                         /\ UNCHANGED panic
    /\ events' = <<>>
    /\ should_allow_idle' = FALSE
    /\ UNCHANGED <<globals, compositor, surf, idle_inhibit_manager>>

\* main, lines 70-72: active_player.events() opens the event stream
EventsOpen ==
    /\ pc = "events"
    /\ \E ok \in BOOLEAN :
         IF ok
         THEN /\ pc' = "watch"
              /\ events' \in EventStreams
              /\ UNCHANGED panic
         ELSE /\ Die("couldn't watch for player events")
              /\ events' = <<>>
    /\ bus' = NoBus
    /\ found' = NoFound
    /\ Quiet
    /\ UNCHANGED <<globals, compositor, surf, idle_inhibit_manager, idle_inhibitor,
                   active_player_opt, should_allow_idle>>

\* main, lines 74-97: event_iterator.find pulls the next element of the stream;
\* on a match or at the end of the stream should_allow_idle is computed and tested
EventNext ==
    /\ pc = "watch"
    /\ LET item == IF events = <<>> THEN "None" ELSE MapEvent(Head(events))
           e == IF events = <<>> THEN "" ELSE Head(events)
       IN /\ events' = IF events = <<>> THEN <<>> ELSE Tail(events)
          /\ out' = WatchLines(item, e)
          /\ IF item # "None" /\ ~FindPredicate(item)
             THEN UNCHANGED <<pc, should_allow_idle>>
             ELSE /\ should_allow_idle' = ShouldAllowIdle(item)
                  /\ pc' = IF ShouldAllowIdle(item) THEN "sleep" ELSE "events"
    /\ wire' = <<>>
    /\ reply' = "none"
    /\ UNCHANGED <<panic, globals, compositor, surf, idle_inhibit_manager, idle_inhibitor,
                   bus, found, active_player_opt, creates, destroys, roundtrips>>

\* main, line 106: thread::sleep(PLAYER_POLL_SLEEP_DURATION); the iteration ends
\* (active_player_opt goes out of scope) and the next one begins
Sleep ==
    /\ pc = "sleep"
    /\ pc' = "discover"
    /\ bus' = NoBus
    /\ found' = NoFound
    /\ Quiet
    /\ active_player_opt' = 0
    /\ events' = <<>>
    /\ should_allow_idle' = FALSE
    /\ UNCHANGED <<panic, globals, compositor, surf, idle_inhibit_manager, idle_inhibitor>>

Next ==
    \/ Connect
    \/ RegistryEvent
    \/ DispatchDone
    \/ Discover
    \/ EventsOpen
    \/ EventNext
    \/ Sleep

Spec == Init /\ [][Next]_vars

\* the single thread keeps running: a discovery returns, the event stream yields
\* its next element or ends, and the sleep elapses
LiveSpec ==
    /\ Init /\ [][Next]_vars
    /\ WF_vars(Discover) /\ WF_vars(EventsOpen) /\ WF_vars(EventNext) /\ WF_vars(Sleep)

TypeOK ==
    /\ pc \in {"connect", "dispatch", "discover", "events", "watch", "sleep", "dead"}
    /\ idle_inhibitor \in 0..MaxCreates
    /\ active_player_opt \in 0..MaxPlayers
    /\ events \in EventStreams
    /\ creates \in 0..MaxCreates
    /\ destroys \in 0..MaxCreates
    /\ reply \in {"none"} \cup CompositorOutcomes

(* ---- properties ---- *)
Qualifying == {"PlayerShutDown", "Stopped", "Paused"}
OkNone == [kind |-> "Ok", message |-> "", player |-> 0]
CreateRequests == <<"create_inhibitor(surf)", "roundtrip">>
FoundPlayerStep == pc = "discover" /\ pc' = "events"
FoundNoneStep == pc = "discover" /\ pc' = "sleep"
WatchReturnStep == pc = "watch" /\ pc' \notin {"watch", "dead"}

\* C1: at most one idle inhibitor exists: creates minus destroys is always 0 or 1
\* (1 exactly while the loop holds one), a step issues at most one create and
\* only while none is held, and at most one destroy and only while one is held.
C1_AtMostOneInhibitor ==
    /\ creates = 0 /\ destroys = 0 /\ idle_inhibitor = 0
    /\ [][/\ creates' - destroys' \in {0, 1}
          /\ pc' # "dead" => (idle_inhibitor' # 0 <=> creates' - destroys' = 1)
          /\ creates' \in {creates, creates + 1}
          /\ destroys' \in {destroys, destroys + 1}
          /\ creates' > creates => idle_inhibitor = 0 /\ destroys' = destroys
          /\ destroys' > destroys => idle_inhibitor # 0 /\ creates' = creates]_vars

C1_Witness ==
    creates = 2 /\ destroys = 1 /\ idle_inhibitor = 2 /\ pc = "watch"

\* C2 as stated: the loop is Idle with no inhibitor, or it holds one inhibitor
\* and a player's event stream is being watched at that moment.
C2_Original ==
    pc # "dead" =>
        \/ idle_inhibitor = 0 /\ creates = destroys
        \/ /\ idle_inhibitor # 0 /\ creates = destroys + 1
           /\ active_player_opt # 0 /\ pc \in {"events", "watch"}

\* C2 amended: the loop is Idle with no inhibitor or Inhibiting with exactly one;
\* while a player is watched exactly one inhibitor is held, and an inhibitor held
\* outside a watch is one kept during the sleep after a watch returned allow-idle
\* or during the discovery that follows it.
C2_Amended ==
    pc # "dead" =>
        /\ \/ idle_inhibitor = 0 /\ creates = destroys
           \/ idle_inhibitor # 0 /\ creates = destroys + 1
        /\ pc \in {"events", "watch"} => idle_inhibitor # 0 /\ active_player_opt # 0
        /\ (idle_inhibitor # 0 /\ pc \notin {"events", "watch"}) =>
              \/ pc = "sleep" /\ active_player_opt # 0 /\ should_allow_idle
              \/ pc = "discover" /\ active_player_opt = 0

C2_Witness ==
    pc = "sleep" /\ idle_inhibitor # 0 /\ creates = destroys + 1 /\ should_allow_idle

\* C3 as stated: from Idle a found player gives one inhibitor on the anchor
\* surface, the watcher's allow-idle destroys it, and a discovery without a
\* player in Idle issues no destroy.
C3_Original ==
    [][/\ (FoundPlayerStep /\ idle_inhibitor = 0) =>
              idle_inhibitor' # 0 /\ wire' = CreateRequests /\ creates' = destroys' + 1
       /\ WatchReturnStep =>
              idle_inhibitor' = 0 /\ destroys' = destroys + 1 /\ creates' = destroys'
       /\ (FoundNoneStep /\ idle_inhibitor = 0) =>
              idle_inhibitor' = 0 /\ destroys' = destroys /\ wire' = <<>>]_vars

\* C3 amended: from Idle a found player gives one inhibitor on the anchor
\* surface; the watcher's allow-idle leaves it held and issues nothing; the
\* next discovery without a player destroys it, leaving no object; a discovery
\* without a player in Idle issues no destroy.
C3_Amended ==
    [][/\ (FoundPlayerStep /\ idle_inhibitor = 0) =>
              idle_inhibitor' # 0 /\ wire' = CreateRequests /\ creates' = destroys' + 1
       /\ WatchReturnStep =>
              idle_inhibitor' = idle_inhibitor /\ idle_inhibitor # 0 /\ wire' = <<>>
              /\ destroys' = destroys
       /\ (FoundNoneStep /\ idle_inhibitor # 0) =>
              idle_inhibitor' = 0 /\ destroys' = destroys + 1 /\ creates' = destroys'
              /\ wire' = <<"destroy", "roundtrip">>
       /\ (FoundNoneStep /\ idle_inhibitor = 0) =>
              idle_inhibitor' = 0 /\ destroys' = destroys /\ wire' = <<>>]_vars

C3_Witness ==
    /\ pc = "sleep" /\ idle_inhibitor = 0 /\ creates = 1 /\ destroys = 1
    /\ wire = <<>> /\ found = OkNone /\ bus.kind = "Ok"

\* C4: when the watch returns the loop goes straight to the next discovery, and
\* the sleep runs only in a cycle whose discovery found no player.
C4_NoSleepAfterWatch ==
    [][/\ WatchReturnStep => pc' = "discover"
       /\ pc' = "sleep" => active_player_opt' = 0]_vars

\* C5: once an inhibitor is held, the return of the watch, the sleep and a
\* discovery that finds a player issue no request and keep the same inhibitor.
C5_NoGap ==
    [][(idle_inhibitor # 0 /\ (pc \in {"events", "watch", "sleep"} \/ FoundPlayerStep)) =>
           /\ idle_inhibitor' = idle_inhibitor
           /\ creates' = creates /\ destroys' = destroys /\ roundtrips' = roundtrips
           /\ wire' = <<>>]_vars

C5_Witness ==
    /\ pc = "events" /\ idle_inhibitor = 1 /\ creates = 1 /\ destroys = 0
    /\ wire = <<>> /\ active_player_opt = 2

\* C6: every pass of the watch that resolves resolves as allow-idle without
\* ending the process, and it does resolve on a read error, on the end of the
\* stream and on a ShutDown, Stopped or Paused event.
C6_FailOpen ==
    [][pc = "watch" =>
           /\ panic' = "" /\ pc' \in {"watch", "sleep"}
           /\ pc' = "sleep" => should_allow_idle'
           /\ (events = <<>> \/ Head(events) \in Qualifying \cup {"Err"}) =>
                  pc' = "sleep" /\ should_allow_idle']_vars

C6_Witness ==
    /\ pc = "sleep" /\ should_allow_idle
    /\ out = <<Line("Error while watching player events, allowing idle", 0)>>

\* C7 as stated: every enumeration failure whose message is the sentinel gives
\* Ok(None), whatever its kind.
C7_Original ==
    (bus.kind \notin {"Ok", "None"} /\ bus.message = PLAYERCTLD_NO_ACTIVE_PLAYER_MESSAGE) =>
        found = OkNone /\ panic = ""

\* C7 amended: a D-Bus transport error whose message is the sentinel gives
\* Ok(None) and the cycle goes on as with an empty player list; a failure of
\* another kind with the same message is propagated and ends the process.
C7_Amended ==
    /\ (bus.kind = "TransportError" /\ bus.message = PLAYERCTLD_NO_ACTIVE_PLAYER_MESSAGE) =>
           found = OkNone /\ active_player_opt = 0
           /\ panic # "error while finding active players"
    /\ (bus.kind \notin {"Ok", "None", "TransportError"}
        /\ bus.message = PLAYERCTLD_NO_ACTIVE_PLAYER_MESSAGE) =>
           found.kind = bus.kind /\ panic = "error while finding active players"

C7_Witness ==
    /\ bus.kind = "TransportError" /\ bus.message = PLAYERCTLD_NO_ACTIVE_PLAYER_MESSAGE
    /\ found = OkNone /\ pc = "sleep"

\* C8: for an enumerated list the result is the first player whose status is
\* Playing, and none exactly when no player is Playing.
C8_FirstPlayingWins ==
    bus.kind = "Ok" =>
        LET p == bus.players
            k == found.player
        IN /\ found.kind = "Ok"
           /\ k \in 0..Len(p)
           /\ k = 0 <=> (\A i \in 1..Len(p) : p[i] # "Playing")
           /\ k # 0 => p[k] = "Playing" /\ (\A j \in 1..(k - 1) : p[j] # "Playing")
           /\ active_player_opt = k

C8_Witness ==
    bus.players = <<"Paused", "Playing", "Playing">> /\ found.player = 2 /\ pc = "events"

\* C9: a player whose status query failed is never the result, the failure is
\* logged, and a Playing player after it is still found without the discovery
\* failing.
C9_StatusFaultTolerance ==
    bus.kind = "Ok" =>
        LET p == bus.players
        IN /\ found.kind = "Ok" /\ panic # "error while finding active players"
           /\ found.player # 0 => p[found.player] # "Err"
           /\ \A i \in 1..Len(p) :
                (p[i] = "Err" /\ (\A h \in 1..(i - 1) : p[h] # "Playing")) =>
                    /\ \E n \in 1..Len(out) : out[n] = Line("Could not get playback status for", i)
                    /\ \A j \in (i + 1)..Len(p) :
                         (p[j] = "Playing" /\ (\A h \in 1..(j - 1) : p[h] # "Playing")) =>
                             found.player = j

C9_Witness ==
    bus.players = <<"Err", "Playing">> /\ found.player = 2 /\ pc = "events"

\* C10: whenever the loop runs a cycle the surface factory, the anchor surface
\* and the idle-inhibition manager are bound.
C10_BoundBeforeLoop ==
    pc \in {"discover", "events", "watch", "sleep"} =>
        compositor /\ surf /\ idle_inhibit_manager

RejectionPanics ==
    {"could not inhibit idle", "failed to request creating idle inhibitor",
     "failed to request destruction of idle inhibitor"}

\* C11: a player that exited after discovery returned it never ends the
\* process: neither opening nor reading its event stream is fatal.
C11_InvalidPlayerNeverFatal ==
    [][(pc \in {"events", "watch"}) => (panic' = "" /\ pc' # "dead")]_vars

\* C12: a cycle that finds a player while an inhibitor is held issues no
\* compositor request, a cycle that finds one while none is held issues one
\* create and one round-trip, and every round-trip so far belongs to one
\* create or one destroy.
C12_IdempotentInhibition ==
    [][/\ (pc = "discover" /\ idle_inhibitor # 0 /\ found'.player # 0) =>
              /\ wire' = <<>> /\ reply' = "none" /\ pc' = "events"
              /\ creates' = creates /\ roundtrips' = roundtrips /\ destroys' = destroys
              /\ idle_inhibitor' = idle_inhibitor
       /\ (FoundPlayerStep /\ idle_inhibitor = 0) =>
              creates' = creates + 1 /\ roundtrips' = roundtrips + 1 /\ destroys' = destroys
       /\ roundtrips' = creates' + destroys']_vars

C12_Witness ==
    /\ pc = "events" /\ wire = <<>> /\ idle_inhibitor = 1
    /\ creates = 1 /\ roundtrips = 1 /\ destroys = 0 /\ found.player # 0

\* C13: a cycle whose discovery finds no player while no inhibitor is held
\* issues no compositor request and leaves the inhibitor absent.
C13_IdempotentRelease ==
    [][(pc = "discover" /\ idle_inhibitor = 0 /\ found' = OkNone) =>
           /\ wire' = <<>> /\ reply' = "none"
           /\ creates' = creates /\ destroys' = destroys /\ roundtrips' = roundtrips
           /\ idle_inhibitor' = 0 /\ pc' = "sleep" /\ out' = DiscoveryLines(bus')]_vars

C13_Witness ==
    /\ pc = "sleep" /\ idle_inhibitor = 0 /\ found = OkNone /\ bus.players = <<"Paused">>
    /\ wire = <<>> /\ creates = 0 /\ destroys = 0 /\ roundtrips = 0

\* C14: an enumeration failure other than the sentinel transport error comes
\* out of find_active_player as that error and ends the process, whether or not
\* an inhibitor is held, with no request issued; a dead process takes no step.
C14_DiscoveryErrorFatal ==
    [][/\ (bus'.kind \notin {"Ok", "None"}
           /\ ~(bus'.kind = "TransportError"
                /\ bus'.message = PLAYERCTLD_NO_ACTIVE_PLAYER_MESSAGE)) =>
              /\ found'.kind = bus'.kind /\ found'.message = bus'.message
              /\ pc' = "dead" /\ panic' = "error while finding active players"
              /\ wire' = <<>> /\ creates' = creates /\ destroys' = destroys
              /\ idle_inhibitor' = idle_inhibitor
       /\ pc = "dead" => FALSE]_vars

C14_Witness ==
    /\ pc = "dead" /\ panic = "error while finding active players"
    /\ bus.kind = "TransportError" /\ bus.message = "Message recipient disconnected"
    /\ idle_inhibitor # 0

\* C15: each step of the watch consumes exactly the next element of the stream;
\* an event other than ShutDown, Stopped or Paused is logged and the wait goes
\* on; the first ShutDown/Stopped/Paused or read error ends the watch with the
\* later elements left in the stream.
C15_ConsumeInOrder ==
    [][(pc = "watch" /\ events # <<>>) =>
           /\ events' = Tail(events)
           /\ Head(events) \notin Qualifying \cup {"Err"} =>
                  pc' = "watch" /\ out' = <<Line("Received event", Head(events))>>
           /\ Head(events) \in Qualifying =>
                  pc' = "sleep" /\ out' = <<Line("Received event", Head(events))>>
           /\ Head(events) = "Err" => pc' = "sleep"]_vars

C15_Witness ==
    /\ pc = "sleep" /\ events = <<"Playing">>
    /\ out = <<Line("Received event", "Stopped")>> /\ should_allow_idle

IdleAllowed == Line("Idle allowed", 0)
Printed(line, lines) == \E n \in 1..Len(lines) : lines[n] = line

\* C16: whatever compositor requests a step issues (bind, create_surface,
\* create_inhibitor, destroy), the last of them is a round-trip.
C16_EveryRequestSynced ==
    wire # <<>> => wire[Len(wire)] = "roundtrip"

\* C17: in a cycle whose discovery finds no player, "Idle allowed" is printed
\* exactly when the cycle destroyed a held inhibitor and the round-trip after
\* the destroy succeeded; the cycle then sleeps, and the sleep is followed by
\* the next discovery.
C17_IdleAllowedLine ==
    [][/\ (pc = "discover" /\ found' = OkNone) =>
              /\ Printed(IdleAllowed, out') <=>
                     (idle_inhibitor # 0 /\ destroys' = destroys + 1 /\ reply' = "ok")
              /\ Printed(IdleAllowed, out') =>
                     wire' = <<"destroy", "roundtrip">> /\ idle_inhibitor' = 0
              /\ pc' # "dead" => pc' = "sleep"
       /\ pc = "sleep" => pc' = "discover"]_vars

C17_Witness ==
    /\ pc = "sleep" /\ out = <<IdleAllowed>> /\ reply = "ok"
    /\ destroys = 1 /\ idle_inhibitor = 0 /\ found = OkNone

\* C18: when the compositor rejects the create request or the round-trip after
\* a create or a destroy, the step ends the process with the matching panic,
\* the request is not issued again, and the dead process takes no further step.
C18_RejectionFatal ==
    [][/\ reply' \in {"request_rejected", "roundtrip_rejected"} =>
              pc' = "dead" /\ panic' \in RejectionPanics /\ idle_inhibitor' = 0
       /\ reply' = "request_rejected" =>
              wire' = <<>> /\ panic' = "could not inhibit idle"
       /\ reply' = "roundtrip_rejected" =>
              \/ wire' = CreateRequests
                 /\ panic' = "failed to request creating idle inhibitor"
              \/ wire' = <<"destroy", "roundtrip">>
                 /\ panic' = "failed to request destruction of idle inhibitor"
       /\ pc = "dead" => UNCHANGED vars]_vars

C18_Witness ==
    /\ pc = "dead" /\ reply = "roundtrip_rejected" /\ destroys = 1
    /\ panic = "failed to request destruction of idle inhibitor"

\* C19: the event stream is opened only by a cycle whose discovery found a
\* player, and the first pass of the inner loop that resolves computes
\* should_allow_idle = true and leaves the loop, so the stream is never reopened.
C19_OnePassPerCycle ==
    [][/\ pc' = "events" => (pc = "discover" /\ found'.player # 0)
       /\ pc = "events" => pc' \in {"watch", "dead"}
       /\ (pc = "watch" /\ pc' # "watch") => (pc' = "sleep" /\ should_allow_idle')]_vars

C19_Witness ==
    /\ pc = "sleep" /\ should_allow_idle /\ events = <<>>
    /\ out = <<Line("No event ending playback returned, allowing idle", 0)>>

\* C20: in a run with no fatal error in which from some point on no discovery
\* finds a Playing player, an inhibitor that is held is eventually destroyed.
C20_NoStuckInhibition ==
    ([](pc # "dead") /\ <>[](pc # "events")) =>
        [](idle_inhibitor # 0 => <>(idle_inhibitor = 0 /\ creates = destroys))

C20_Witness ==
    /\ pc = "discover" /\ idle_inhibitor = 0 /\ creates = 1 /\ destroys = 1
    /\ active_player_opt = 0

====
